---------------------------- MODULE Spec2Model ----------------------------
(***************************************************************************)
(* Model of generate_sim30L_v2.py: the physics-based continuation of the   *)
(* N97CX track to runway 30L.                                              *)
(*                                                                         *)
(* The script computes in floating point; the model computes in fixed      *)
(* point with these units:                                                 *)
(*   angles (heading, bank)        centidegrees      (250.00 deg = 25000)  *)
(*   turn rate                     centidegrees / s                        *)
(*   speed                         centiknots        (113 kts = 11300)     *)
(*   position                      decifeet east (x) and north (y) of the  *)
(*                                 runway threshold: the script's lat/lon  *)
(*                                 seen through latlon_to_xy_ft            *)
(*   altitude                      centifeet                               *)
(*   descent rate                  decifeet / min                          *)
(*   time                          milliseconds since midnight             *)
(*   sin, cos, tan                 scaled by 10000                         *)
(***************************************************************************)
EXTENDS Integers, Sequences, FiniteSets

(***************************************************************************)
(* Configuration and constants (lines 22-53, 329-345)                      *)
(***************************************************************************)
TARGET_SPEED_KTS == 10000
TARGET_ALTITUDE_FT == 221300
RWY_30L_HEADING == 31450
SPLIT_TIME == 68571500
\* DEG_TO_RAD scaled by 10^7, RAD_TO_DEG by 100, KNOTS_TO_FPS by 10^4,
\* G_FPS2 by 1000
DEG_TO_RAD == 174533
RAD_TO_DEG == 5730
KNOTS_TO_FPS == 16878
G_FPS2 == 32174
METERS_PER_DEG_LAT == 110540
\* the sphere radius of haversine_distance_ft and destination_point, in km
EARTH_RADIUS_KM == 6371
max_iterations == 200
\* dt = 0.5 s, in milliseconds
dt == 500

\* metres per degree of latitude on the sphere of radius R: R * pi / 180
SphereMetersPerDeg == (EARTH_RADIUS_KM * DEG_TO_RAD) \div 10000

(***************************************************************************)
(* Fixed-point helpers                                                     *)
(***************************************************************************)
Abs(a) == IF a < 0 THEN -a ELSE a

Min(a, b) == IF a < b THEN a ELSE b

Max(a, b) == IF a > b THEN a ELSE b

Sign(a) == IF a < 0 THEN -1 ELSE IF a > 0 THEN 1 ELSE 0

\* a / b rounded to the nearest integer (halves away from zero), b > 0
RDiv(a, b) == Sign(a) * ((2 * Abs(a) + b) \div (2 * b))

RECURSIVE SqrtSearch(_, _, _)
SqrtSearch(n, lo, hi) ==
    IF lo >= hi THEN lo
    ELSE LET mid == (lo + hi + 1) \div 2
         IN  IF mid * mid <= n THEN SqrtSearch(n, mid, hi)
                               ELSE SqrtSearch(n, lo, mid - 1)

\* floor of the square root of n, 0 <= n < 2^31
ISqrt(n) == SqrtSearch(n, 0, 46340)

\* sin of 0..90 whole degrees, scaled by 10000
SinTable ==
    << 0, 175, 349, 523, 698, 872, 1045, 1219, 1392, 1564,
       1736, 1908, 2079, 2250, 2419, 2588, 2756, 2924, 3090, 3256,
       3420, 3584, 3746, 3907, 4067, 4226, 4384, 4540, 4695, 4848,
       5000, 5150, 5299, 5446, 5592, 5736, 5878, 6018, 6157, 6293,
       6428, 6561, 6691, 6820, 6947, 7071, 7193, 7314, 7431, 7547,
       7660, 7771, 7880, 7986, 8090, 8192, 8290, 8387, 8480, 8572,
       8660, 8746, 8829, 8910, 8988, 9063, 9135, 9205, 9272, 9336,
       9397, 9455, 9511, 9563, 9613, 9659, 9703, 9744, 9781, 9816,
       9848, 9877, 9903, 9925, 9945, 9962, 9976, 9986, 9994, 9998,
       10000 >>

\* sin of r centidegrees, 0 <= r <= 9000: the table, interpolated linearly
SinQuadrant(r) ==
    LET i == r \div 100
        f == r % 100
    IN  IF f = 0 THEN SinTable[i + 1]
        ELSE SinTable[i + 1] + RDiv((SinTable[i + 2] - SinTable[i + 1]) * f, 100)

\* math.sin of an angle given in centidegrees
Sin(a) ==
    LET r == a % 36000
    IN  IF r <= 9000 THEN SinQuadrant(r)
        ELSE IF r <= 18000 THEN SinQuadrant(18000 - r)
        ELSE IF r <= 27000 THEN -SinQuadrant(r - 18000)
        ELSE -SinQuadrant(36000 - r)

\* math.cos of an angle given in centidegrees
Cos(a) == Sin(a + 9000)

\* math.tan of an angle given in centidegrees, |a| < 9000
Tan(a) == RDiv(Sin(a) * 10000, Cos(a))

RECURSIVE AtanSearch(_, _, _)
AtanSearch(t, lo, hi) ==
    IF lo >= hi THEN lo
    ELSE LET mid == (lo + hi + 1) \div 2
         IN  IF Tan(mid) <= t THEN AtanSearch(t, mid, hi)
                              ELSE AtanSearch(t, lo, mid - 1)

\* math.atan of t (scaled by 10000), in centidegrees
Atan(t) == Sign(t) * AtanSearch(Abs(t), 0, 8900)


(***************************************************************************)
(* Utility functions (lines 59-151)                                        *)
(***************************************************************************)
\* Distance in decifeet between two points given by their planar offsets.
\* The planar frame counts METERS_PER_DEG_LAT metres per degree, the sphere
\* of the haversine formula R * pi / 180, so the great-circle distance is
\* the planar one scaled by their ratio.
haversine_distance_ft(x1, y1, x2, y2) ==
    LET dxf == RDiv(x2 - x1, 10)
        dyf == RDiv(y2 - y1, 10)
        planar == ISqrt(dxf * dxf + dyf * dyf)
    IN  10 * (planar + RDiv(planar * (SphereMetersPerDeg - METERS_PER_DEG_LAT),
                            METERS_PER_DEG_LAT))

\* The point reached from (x, y) on bearing_deg after distance_ft (decifeet),
\* as planar offsets: the sphere's step seen through latlon_to_xy_ft.
destination_point(x, y, bearing_deg, distance_ft) ==
    LET d == RDiv(distance_ft * METERS_PER_DEG_LAT, SphereMetersPerDeg)
    IN  << x + RDiv(d * Sin(bearing_deg), 10000),
           y + RDiv(d * Cos(bearing_deg), 10000) >>

RECURSIVE WhileBelowZero(_)
WhileBelowZero(hdg) == IF hdg < 0 THEN WhileBelowZero(hdg + 36000) ELSE hdg

RECURSIVE WhileAtLeast360(_)
WhileAtLeast360(hdg) == IF hdg >= 36000 THEN WhileAtLeast360(hdg - 36000) ELSE hdg

\* normalize_heading without its second loop
NormalizeHeadingUpOnly(hdg) == WhileBelowZero(hdg)

normalize_heading(hdg) == WhileAtLeast360(WhileBelowZero(hdg))

RECURSIVE WhileAbove180(_)
WhileAbove180(diff) == IF diff > 18000 THEN WhileAbove180(diff - 36000) ELSE diff

RECURSIVE WhileBelowMinus180(_)
WhileBelowMinus180(diff) ==
    IF diff < -18000 THEN WhileBelowMinus180(diff + 36000) ELSE diff

\* signed_angle_diff without its second loop
SignedAngleDiffDownOnly(from_hdg, to_hdg) == WhileAbove180(to_hdg - from_hdg)

signed_angle_diff(from_hdg, to_hdg) ==
    WhileBelowMinus180(WhileAbove180(to_hdg - from_hdg))

\* speed * KNOTS_TO_FPS, in centifeet per second
V_fps(speed_kts) == RDiv(speed_kts * KNOTS_TO_FPS, 10000)

\* tan(bank) = V * omega / g; omega_rad is held in 10^-5 rad/s
bank_angle_from_turn(speed_kts, turn_rate_dps) ==
    IF Abs(turn_rate_dps) < 1 THEN 0
    ELSE LET omega_rad == RDiv(turn_rate_dps * DEG_TO_RAD, 10000)
         IN  Atan(RDiv(V_fps(speed_kts) * omega_rad, G_FPS2))

(***************************************************************************)
(* Runway-relative geometry (lines 362-370, 389-396)                       *)
(***************************************************************************)
\* -dx * sin(rwy_hdg) - dy * cos(rwy_hdg), in decifeet
AlongTrack(x, y) ==
    RDiv(- RDiv(x, 10) * Sin(RWY_30L_HEADING) - RDiv(y, 10) * Cos(RWY_30L_HEADING),
         1000)

\* dx * cos(rwy_hdg) - dy * sin(rwy_hdg), in decifeet
CrossTrack(x, y) ==
    RDiv(RDiv(x, 10) * Cos(RWY_30L_HEADING) - RDiv(y, 10) * Sin(RWY_30L_HEADING),
         1000)

OnCenterline(x, y) == Abs(CrossTrack(x, y)) < 500

OnHeading(hdg) == Abs(signed_angle_diff(hdg, RWY_30L_HEADING)) < 500

\* the marker test with 100 ft for 1000 ft
At100ftMarker(x, y) == AlongTrack(x, y) < -1000

At1000ftMarker(x, y) == AlongTrack(x, y) < -10000

\* a stop test that knows the 1000 ft marker only
StopOnMarkerOnly(x, y, hdg) == At1000ftMarker(x, y)

\* a stop test that knows the centerline capture only
StopOnCaptureOnly(x, y, hdg) == OnCenterline(x, y) /\ OnHeading(hdg)

\* the condition of the break at line 378
StopCondition(x, y, hdg) ==
    At1000ftMarker(x, y) \/ (OnCenterline(x, y) /\ OnHeading(hdg))

(***************************************************************************)
(* Controller (lines 402-483)                                              *)
(***************************************************************************)
hdg_past_intercept(hdg) == hdg < RWY_30L_HEADING - 500

\* a continue-turn test that does not look at the heading
ContinueTurnByCrossTrack(cross_track, hdg, started) ==
    cross_track > 2000 /\ ~started

\* the condition of line 420: continue the turn
ContinueTurn(cross_track, hdg, started) ==
    cross_track > 2000 /\ ~hdg_past_intercept(hdg) /\ ~started

\* a blend whose cross-track part banks toward the side the aircraft is on
InterceptBlendSameSide(cross_track, hdg_to_runway) ==
    LET cross_track_abs == Abs(cross_track)
        hdg_weight == IF cross_track_abs < 1000 THEN 9
                      ELSE IF cross_track_abs < 3000 THEN 7 ELSE 4
        hdg_gain == IF cross_track_abs < 1000 THEN 10
                    ELSE IF cross_track_abs < 3000 THEN 8 ELSE 6
        intercept_bank == Max(-1200, Min(1200, RDiv(cross_track * 100, 500)))
        hdg_correction == Max(-1800, Min(1800, RDiv(hdg_to_runway * hdg_gain, 10)))
    IN  Max(-2000, Min(2000,
            RDiv(intercept_bank * (10 - hdg_weight) + hdg_correction * hdg_weight, 10)))

\* lines 444-466: blend of cross-track and heading correction
InterceptBlend(cross_track, hdg_to_runway) ==
    LET cross_track_abs == Abs(cross_track)
        hdg_weight == IF cross_track_abs < 1000 THEN 9
                      ELSE IF cross_track_abs < 3000 THEN 7 ELSE 4
        hdg_gain == IF cross_track_abs < 1000 THEN 10
                    ELSE IF cross_track_abs < 3000 THEN 8 ELSE 6
        intercept_bank == Max(-1200, Min(1200, RDiv(-cross_track * 100, 500)))
        hdg_correction == Max(-1800, Min(1800, RDiv(hdg_to_runway * hdg_gain, 10)))
    IN  Max(-2000, Min(2000,
            RDiv(intercept_bank * (10 - hdg_weight) + hdg_correction * hdg_weight, 10)))

\* a rollout target bank with no priority branch: the blend whatever the
\* heading error
RolloutTargetBankBlendOnly(cross_track, hdg_to_runway) ==
    InterceptBlend(cross_track, hdg_to_runway)

\* lines 434-466: the target bank once rollout has begun
RolloutTargetBank(cross_track, hdg_to_runway) ==
    IF hdg_to_runway > 2000 THEN Min(800, RDiv(hdg_to_runway * 4, 10))
    ELSE InterceptBlend(cross_track, hdg_to_runway)

\* a bank rate of 5 degrees per second in rollout whatever the heading error
MaxBankChangeOneRolloutRate(started, hdg_to_runway) ==
    IF started THEN RDiv(500 * dt, 1000) ELSE RDiv(300 * dt, 1000)

\* lines 469-477: max_bank_change = rate * dt, the rate in degrees per second
MaxBankChange(started, hdg_to_runway) ==
    IF started
    THEN IF hdg_to_runway > 2000 THEN RDiv(800 * dt, 1000) ELSE RDiv(500 * dt, 1000)
    ELSE RDiv(300 * dt, 1000)

\* a rate limit that always steps by max_bank_change and never lands on
\* the target
RateLimitNoSnap(b, target, max_bank_change) ==
    b + max_bank_change * (IF target - b > 0 THEN 1 ELSE -1)

\* a rate limit that takes the whole step whenever the bank is off the
\* target, and so passes a target nearer than one step
RateLimitOvershoot(b, target, max_bank_change) ==
    IF target = b THEN target
    ELSE b + max_bank_change * (IF target - b > 0 THEN 1 ELSE -1)

\* lines 479-483
RateLimit(b, target, max_bank_change) ==
    LET bank_diff == target - b
    IN  IF Abs(bank_diff) > max_bank_change
        THEN b + max_bank_change * (IF bank_diff > 0 THEN 1 ELSE -1)
        ELSE target

\* the turn rate without the wings-level guard of line 488
TurnRateNoGuard(b, speed_kts) ==
    RDiv(RDiv(G_FPS2 * Tan(b), V_fps(speed_kts)) * RAD_TO_DEG, 100000)

\* lines 487-491: omega = g * tan(bank) / V, held in 10^-5 rad/s
TurnRateFromBank(b, speed_kts) ==
    IF Abs(b) > 50
    THEN RDiv(RDiv(G_FPS2 * Tan(b), V_fps(speed_kts)) * RAD_TO_DEG, 100000)
    ELSE 0

(***************************************************************************)
(* Profiles (lines 254-264, 493-511)                                       *)
(***************************************************************************)
\* a deceleration with no floor under its rate
DecelerateNoMinimum(speed_kts, dist_to_rwy) ==
    LET speed_error == speed_kts - TARGET_SPEED_KTS
        time_to_threshold == RDiv(dist_to_rwy * 1000, V_fps(speed_kts))
        decel_rate == Min(RDiv(speed_error * 100, time_to_threshold), 200)
    IN  IF speed_error > 0 /\ dist_to_rwy > 1000 /\ time_to_threshold > 100
        THEN speed_kts - RDiv(decel_rate * dt, 1000)
        ELSE speed_kts

\* a deceleration that sets speed to the target within 100 ft of the runway
DecelerateForcedNearRunway(speed_kts, dist_to_rwy) ==
    LET speed_error == speed_kts - TARGET_SPEED_KTS
        time_to_threshold == RDiv(dist_to_rwy * 1000, V_fps(speed_kts))
        decel_rate == Max(Min(RDiv(speed_error * 100, time_to_threshold), 200), 30)
    IN  IF speed_error > 0 /\ dist_to_rwy > 1000 /\ time_to_threshold > 100
        THEN speed_kts - RDiv(decel_rate * dt, 1000)
        ELSE IF dist_to_rwy <= 1000 THEN TARGET_SPEED_KTS ELSE speed_kts

\* lines 495-506; time_to_threshold is held in centiseconds
Decelerate(speed_kts, dist_to_rwy) ==
    LET speed_error == speed_kts - TARGET_SPEED_KTS
        time_to_threshold == RDiv(dist_to_rwy * 1000, V_fps(speed_kts))
        decel_rate == Max(Min(RDiv(speed_error * 100, time_to_threshold), 200), 30)
    IN  IF speed_error > 0 /\ dist_to_rwy > 1000 /\ time_to_threshold > 100
        THEN speed_kts - RDiv(decel_rate * dt, 1000)
        ELSE speed_kts

\* lines 509-511
Descend(altitude, descent_fpm) ==
    LET a == altitude + RDiv(descent_fpm * dt, 6000)
    IN  IF a < TARGET_ALTITUDE_FT THEN TARGET_ALTITUDE_FT ELSE a

\* lines 255-264: the descent rate of the whole run, fixed before the loop
ActualDescentFpm(split_alt, speed_at_split, dist_to_rwy) ==
    LET alt_to_lose == split_alt - TARGET_ALTITUDE_FT
        avg_speed_fps == V_fps(RDiv(speed_at_split + TARGET_SPEED_KTS, 2))
        time_to_threshold == RDiv(dist_to_rwy * 1000, avg_speed_fps)
        computed_descent_fpm ==
            IF time_to_threshold > 0 THEN RDiv(alt_to_lose * 600, time_to_threshold)
            ELSE 6000
    IN  -computed_descent_fpm

(***************************************************************************)
(* Reading the recorded roll at the split point (lines 296-326)            *)
(***************************************************************************)
\* The loop of lines 305-317 from row i on: the last row at or before
\* split_secs seen before the first row after it, and that row.
\* <<>> stands for None.
RECURSIVE ScanRollRows(_, _, _, _)
ScanRollRows(rows, i, split_secs, prev_roll) ==
    IF i > Len(rows) THEN [prev_roll |-> prev_roll, next_roll |-> <<>>]
    ELSE IF rows[i].secs <= split_secs
         THEN ScanRollRows(rows, i + 1, split_secs, << rows[i] >>)
         ELSE [prev_roll |-> prev_roll, next_roll |-> << rows[i] >>]

\* lines 318-323: the bank the recorded rows give at split_secs, else computed
RollAtSplit(rows, split_secs, computed) ==
    LET s == ScanRollRows(rows, 1, split_secs, <<>>)
    IN  IF s.prev_roll = <<>> THEN computed
        ELSE LET p == s.prev_roll[1]
             IN  IF s.next_roll # <<>> /\ s.next_roll[1].secs # p.secs
                 THEN LET n == s.next_roll[1]
                      IN  p.roll + RDiv((split_secs - p.secs) * (n.roll - p.roll),
                                        n.secs - p.secs)
                 ELSE p.roll

(***************************************************************************)
(* Inputs: the state estimated at the split point and the roll file        *)
(***************************************************************************)
\* the longest roll file of the model, in rows
MaxRollRows == 2

\* the recording period of the roll file and the split row's time offset
RollPeriod == 1000

\* a recorded roll file of n rows, one per RollPeriod, from first_secs on
RollRows(n, first_secs) ==
    [k \in 1..n |-> [secs |-> first_secs + (k - 1) * RollPeriod,
                     roll |-> -2800 + (k - 1) * 600]]

RollFiles ==
    {[status |-> "missing", rows |-> <<>>], [status |-> "unreadable", rows |-> <<>>]}
    \cup {[status |-> "ok", rows |-> RollRows(n, first)] :
            n \in 0..MaxRollRows, first \in {SPLIT_TIME - 700, SPLIT_TIME + 300}}

\* start positions: abeam the threshold on a left base, far out on the right
\* of the extended centerline, close to the centerline short of the runway,
\* and 150 ft short of the threshold
InitPositions ==
    { << 17977, -8272 >>, << 128320, -119090 >>, << 21608, -20813 >>,
      << 1200, -900 >> }

InitHeadings == { 25000, 33000, 31450 }

InitSpeeds == { 11300, 10010, 9500 }

InitTurnRates == { -500, 300 }

\* altitude at the collision point and altitude of the recorded split row
InitAltitudes == { << 227000, 227000 >>, << 227000, 220000 >> }

\* the inputs that vary together: altitudes vary with the roll file missing,
\* roll files vary at the nominal altitudes
InitVariants ==
    {[alts |-> a, roll |-> [status |-> "missing", rows |-> <<>>]] : a \in InitAltitudes}
    \cup {[alts |-> << 227000, 227000 >>, roll |-> r] : r \in RollFiles}

(***************************************************************************)
(* State                                                                   *)
(***************************************************************************)
VARIABLES
    pc,                     \* the script's position
    roll_file,              \* N97CX_roll_original.csv: status and rows
    pt_split,               \* the recorded row at the split: time and altitude
    at_split,               \* heading_at_split, speed_at_split, turn_rate_at_split
    bank_at_split,          \* line 235
    original_bank_at_split, \* lines 298-323
    actual_descent_fpm,     \* line 264
    x_ft, y_ft,             \* position (lat, lon) as planar offsets
    alt, heading, speed, turn_rate, bank, target_bank,
    current_time, phase, iteration, rollout_started,
    at_1000ft_marker, on_centerline, on_heading,
    sim_data, extended_data,
    xyz_csv, roll_csv,      \* the files written: <<>> until written
    log,                    \* what the script printed, one tag per line
    raised,                 \* an exception left the script
    call                    \* a utility function applied on its own: its
                            \* name, arguments and result (<<>> until applied)

script_vars ==
    << pc, roll_file, pt_split, at_split, bank_at_split, original_bank_at_split,
       actual_descent_fpm, x_ft, y_ft, alt, heading, speed, turn_rate, bank,
       target_bank, current_time, phase, iteration, rollout_started,
       at_1000ft_marker, on_centerline, on_heading, sim_data, extended_data,
       xyz_csv, roll_csv, log, raised >>

vars == << script_vars, call >>

\* a name not yet bound by the script; never read before it is bound
Unbound == "unbound"

\* no utility function is applied on its own while the script runs
NoCall == [fn |-> "none", args |-> << >>, result |-> << >>]

(***************************************************************************)
(* Initial state: the script at line 296, the split state estimated        *)
(* (lines 201-265), the loop's variables set (lines 273-294, 328-351).     *)
(* The recorded rows before the split are left out of sim_data, which      *)
(* starts with the collision point (lines 192-198); the recorded split row *)
(* lies at the collision point, 47 ms after SPLIT_TIME.                    *)
(***************************************************************************)
Init ==
    \E p \in InitPositions, h \in InitHeadings, s \in InitSpeeds,
       tr \in InitTurnRates, v \in InitVariants :
        /\ pc = "read_roll"
        /\ roll_file = v.roll
        /\ pt_split = [time |-> SPLIT_TIME + 47, alt |-> v.alts[2]]
        /\ at_split = [heading_at_split |-> h, speed_at_split |-> s,
                       turn_rate_at_split |-> tr]
        /\ bank_at_split = bank_angle_from_turn(s, tr)
        /\ original_bank_at_split = bank_angle_from_turn(s, tr)
        /\ actual_descent_fpm =
               ActualDescentFpm(v.alts[2], s, haversine_distance_ft(p[1], p[2], 0, 0))
        /\ x_ft = p[1]
        /\ y_ft = p[2]
        /\ alt = v.alts[1]
        /\ heading = h
        /\ speed = s
        /\ turn_rate = tr
        /\ bank = Unbound
        /\ target_bank = Unbound
        /\ current_time = SPLIT_TIME
        /\ phase = 1
        /\ iteration = 0
        /\ rollout_started = FALSE
        /\ at_1000ft_marker = FALSE
        /\ on_centerline = FALSE
        /\ on_heading = FALSE
        /\ sim_data = << [time |-> SPLIT_TIME, x_ft |-> p[1], y_ft |-> p[2],
                          alt |-> v.alts[1]] >>
        /\ extended_data = << >>
        /\ xyz_csv = << >>
        /\ roll_csv = << >>
        /\ log = << >>
        /\ raised = FALSE
        /\ call = NoCall

(***************************************************************************)
(* Lines 296-326: the bank at the split from the recorded roll.  Whatever   *)
(* the open or the read raises is swallowed (except: pass).                *)
(***************************************************************************)
ReadRollOriginal ==
    /\ pc = "read_roll"
    /\ IF roll_file.status = "ok"
       THEN /\ original_bank_at_split' =
                   RollAtSplit(roll_file.rows, pt_split.time, bank_at_split)
            /\ log' = Append(log, "Original bank at split")
       ELSE UNCHANGED << original_bank_at_split, log >>
    /\ pc' = "loop"
    /\ UNCHANGED << roll_file, pt_split, at_split, bank_at_split, actual_descent_fpm, x_ft,
                    y_ft, alt, heading, speed, turn_rate, bank, target_bank,
                    current_time, phase, iteration, rollout_started,
                    at_1000ft_marker, on_centerline, on_heading, sim_data,
                    extended_data, xyz_csv, roll_csv, raised >>
    /\ UNCHANGED call

(***************************************************************************)
(* The simulation loop (lines 353-545)                                     *)
(***************************************************************************)
\* a while loop with no cap on the iterations
LoopGuardNoCap == TRUE

\* the condition of the while at line 353
LoopGuard == iteration < max_iterations

\* the flag recomputed from the geometry at every iteration
RolloutStartedRecomputed(started, cross_track, hdg) ==
    ~(cross_track > 2000 /\ ~hdg_past_intercept(hdg))

\* lines 420-430: the flag after the controller has run
RolloutStartedAfter(started, cross_track, hdg) ==
    IF ContinueTurn(cross_track, hdg, started) THEN started ELSE TRUE

\* a clock that keeps whole seconds only
TimeAfterWholeSeconds(t) == ((t + dt) \div 1000) * 1000

\* line 521: current_time += timedelta(seconds=dt); datetime arithmetic is
\* exact in microseconds and both SPLIT_TIME and dt are whole milliseconds,
\* so the milliseconds written at lines 527 and 534 are the clock itself
TimeAfter(t) == t + dt

\* line 514
HeadingAfter(hdg, rate) == normalize_heading(hdg + RDiv(rate * dt, 1000))

\* a sample marked with phase 0, the marker of the recorded rows (line 706)
ExtendedRowRecordedPhase(t, x, y, a, gs_kts, hdg, bank_deg, rate, ph) ==
    [time |-> t, x_ft |-> x, y_ft |-> y, alt |-> a, gs_kts |-> gs_kts,
     heading |-> hdg, bank_deg |-> bank_deg, turn_rate |-> rate, phase |-> 0]

\* lines 533-545: the sample appended to extended_data
ExtendedRow(t, x, y, a, gs_kts, hdg, bank_deg, rate, ph) ==
    [time |-> t, x_ft |-> x, y_ft |-> y, alt |-> a, gs_kts |-> gs_kts,
     heading |-> hdg, bank_deg |-> bank_deg, turn_rate |-> rate, phase |-> ph]

\* lines 353-380: an iteration that ends the loop at the break
LoopStop ==
    /\ pc = "loop"
    /\ LoopGuard
    /\ StopCondition(x_ft, y_ft, heading)
    /\ iteration' = iteration + 1
    /\ at_1000ft_marker' = At1000ftMarker(x_ft, y_ft)
    /\ on_centerline' = OnCenterline(x_ft, y_ft)
    /\ on_heading' = OnHeading(heading)
    /\ log' = Append(log, "End")
    /\ pc' = "report"
    /\ UNCHANGED << roll_file, pt_split, at_split, bank_at_split, original_bank_at_split,
                    actual_descent_fpm, x_ft, y_ft, alt, heading, speed, turn_rate,
                    bank, target_bank, current_time, phase, rollout_started,
                    sim_data, extended_data, xyz_csv, roll_csv, raised >>
    /\ UNCHANGED call

\* lines 353-545: an iteration that runs to the end of the loop body
LoopStep ==
    /\ pc = "loop"
    /\ LoopGuard
    /\ ~StopCondition(x_ft, y_ft, heading)
    /\ LET it == iteration + 1
           dist_to_rwy == haversine_distance_ft(x_ft, y_ft, 0, 0)
           cross_track == CrossTrack(x_ft, y_ft)
           hdg_to_runway == signed_angle_diff(heading, RWY_30L_HEADING)
           continue_turn == ContinueTurn(cross_track, heading, rollout_started)
           started == IF it = 1 THEN rollout_started
                      ELSE RolloutStartedAfter(rollout_started, cross_track, heading)
           target == IF it = 1 THEN target_bank
                     ELSE IF continue_turn THEN original_bank_at_split
                     ELSE RolloutTargetBank(cross_track, hdg_to_runway)
           new_bank == IF it = 1 THEN original_bank_at_split
                       ELSE RateLimit(bank, target,
                                      MaxBankChange(started, hdg_to_runway))
           new_turn_rate == TurnRateFromBank(new_bank, speed)
           new_speed == Decelerate(speed, dist_to_rwy)
           new_alt == Descend(alt, actual_descent_fpm)
           new_heading == HeadingAfter(heading, new_turn_rate)
           dist_traveled_ft == RDiv(V_fps(new_speed) * dt, 10000)
           pos == destination_point(x_ft, y_ft, new_heading, dist_traveled_ft)
           new_time == TimeAfter(current_time)
           printed == IF it = 1 THEN << "Starting" >>
                      ELSE IF continue_turn
                           THEN IF it = 2 THEN << "Maintaining" >> ELSE << >>
                      ELSE IF ~rollout_started THEN << "Rollout" >> ELSE << >>
       IN  /\ iteration' = it
           /\ at_1000ft_marker' = FALSE
           /\ on_centerline' = OnCenterline(x_ft, y_ft)
           /\ on_heading' = OnHeading(heading)
           /\ rollout_started' = started
           /\ target_bank' = target
           /\ bank' = new_bank
           /\ turn_rate' = new_turn_rate
           /\ speed' = new_speed
           /\ alt' = new_alt
           /\ heading' = new_heading
           /\ x_ft' = pos[1]
           /\ y_ft' = pos[2]
           /\ current_time' = new_time
           /\ sim_data' = Append(sim_data,
                  [time |-> new_time, x_ft |-> pos[1], y_ft |-> pos[2],
                   alt |-> new_alt])
           /\ extended_data' = Append(extended_data,
                  ExtendedRow(new_time, pos[1], pos[2], new_alt, new_speed,
                              new_heading, new_bank, new_turn_rate, phase))
           /\ log' = log \o printed
    /\ UNCHANGED << pc, roll_file, pt_split, at_split, bank_at_split, original_bank_at_split,
                    actual_descent_fpm, phase, xyz_csv, roll_csv, raised >>
    /\ UNCHANGED call

\* line 353: the while condition fails, the loop ends without a break
LoopExhausted ==
    /\ pc = "loop"
    /\ ~LoopGuard
    /\ pc' = "report"
    /\ UNCHANGED << roll_file, pt_split, at_split, bank_at_split, original_bank_at_split,
                    actual_descent_fpm, x_ft, y_ft, alt, heading, speed, turn_rate,
                    bank, target_bank, current_time, phase, iteration,
                    rollout_started, at_1000ft_marker, on_centerline, on_heading,
                    sim_data, extended_data, xyz_csv, roll_csv, log, raised >>
    /\ UNCHANGED call

(***************************************************************************)
(* After the loop (lines 547-632)                                          *)
(***************************************************************************)
\* lines 547-549
Report ==
    /\ pc = "report"
    /\ log' = Append(log, "Simulation complete")
    /\ pc' = "write_xyz"
    /\ UNCHANGED << roll_file, pt_split, at_split, bank_at_split, original_bank_at_split,
                    actual_descent_fpm, x_ft, y_ft, alt, heading, speed, turn_rate,
                    bank, target_bank, current_time, phase, iteration,
                    rollout_started, at_1000ft_marker, on_centerline, on_heading,
                    sim_data, extended_data, xyz_csv, roll_csv, raised >>
    /\ UNCHANGED call

\* lines 555-559: one row of N97CX_xyz.csv per point of sim_data
WriteXyz ==
    /\ pc = "write_xyz"
    /\ xyz_csv' = sim_data
    /\ log' = Append(log, "Wrote xyz")
    /\ pc' = "gen_roll"
    /\ UNCHANGED << roll_file, pt_split, at_split, bank_at_split, original_bank_at_split,
                    actual_descent_fpm, x_ft, y_ft, alt, heading, speed, turn_rate,
                    bank, target_bank, current_time, phase, iteration,
                    rollout_started, at_1000ft_marker, on_centerline, on_heading,
                    sim_data, extended_data, roll_csv, raised >>
    /\ UNCHANGED call

\* line 587: list.sort by secs (stable), as an insertion sort
RECURSIVE InsertBySecs(_, _)
InsertBySecs(sorted, r) ==
    IF sorted = << >> THEN << r >>
    ELSE IF sorted[Len(sorted)].secs <= r.secs THEN Append(sorted, r)
    ELSE Append(InsertBySecs(SubSeq(sorted, 1, Len(sorted) - 1), r),
                sorted[Len(sorted)])

RECURSIVE SortBySecs(_)
SortBySecs(rows) ==
    IF rows = << >> THEN << >>
    ELSE InsertBySecs(SortBySecs(SubSeq(rows, 1, Len(rows) - 1)), rows[Len(rows)])

\* an interpolation that continues the slope of the first two rows before
\* the first row
InterpolateRollSlopedStart(original_roll_data, target_secs) ==
    IF original_roll_data = << >> THEN << >>
    ELSE LET s == ScanRollRows(original_roll_data, 1, target_secs, << >>)
             a == original_roll_data[1]
             b == original_roll_data[Min(2, Len(original_roll_data))]
         IN  IF s.prev_roll = << >>
             THEN IF b.secs = a.secs THEN << a.roll >>
                  ELSE << a.roll + RDiv((target_secs - a.secs) * (b.roll - a.roll),
                                        b.secs - a.secs) >>
             ELSE IF s.next_roll = << >> THEN << s.prev_roll[1].roll >>
             ELSE IF s.prev_roll[1].secs = target_secs THEN << s.prev_roll[1].roll >>
             ELSE LET p == s.prev_roll[1]
                      n == s.next_roll[1]
                  IN  << p.roll + RDiv((target_secs - p.secs) * (n.roll - p.roll),
                                       n.secs - p.secs) >>

\* lines 589-611; << >> stands for None, << v >> for the value v
interpolate_roll(original_roll_data, target_secs) ==
    IF original_roll_data = << >> THEN << >>
    ELSE LET s == ScanRollRows(original_roll_data, 1, target_secs, << >>)
         IN  IF s.prev_roll = << >> THEN << original_roll_data[1].roll >>
             ELSE IF s.next_roll = << >> THEN << s.prev_roll[1].roll >>
             ELSE IF s.prev_roll[1].secs = target_secs THEN << s.prev_roll[1].roll >>
             ELSE LET p == s.prev_roll[1]
                      n == s.next_roll[1]
                  IN  << p.roll + RDiv((target_secs - p.secs) * (n.roll - p.roll),
                                       n.secs - p.secs) >>

\* lines 617-623: the recorded points that get a roll value
RECURSIVE PreSplitRoll(_, _)
PreSplitRoll(points, original_roll_data) ==
    IF points = << >> THEN << >>
    ELSE LET roll_val == interpolate_roll(original_roll_data, points[1].time)
             rest == PreSplitRoll(Tail(points), original_roll_data)
         IN  IF roll_val # << >>
             THEN << [time |-> points[1].time, roll |-> roll_val[1]] >> \o rest
             ELSE rest

\* the f"{bank:.1f}" of line 631: tenths of a degree
FormatBank(b) == RDiv(b, 10)

\* lines 565-632: N97CX_roll.csv.  The second open of the roll file catches
\* FileNotFoundError only; any other error leaves the script.
GenerateRoll ==
    /\ pc = "gen_roll"
    /\ IF roll_file.status = "unreadable"
       THEN /\ raised' = TRUE
            /\ pc' = "aborted"
            /\ UNCHANGED << roll_csv, log >>
       ELSE LET original_roll_data ==
                    IF roll_file.status = "missing" THEN << >>
                    ELSE SortBySecs(roll_file.rows)
                recorded == SubSeq(sim_data, 1, Len(sim_data) - Len(extended_data))
                roll_output ==
                    PreSplitRoll(recorded, original_roll_data)
                    \o [i \in 1..Len(extended_data) |->
                           [time |-> extended_data[i].time,
                            roll |-> extended_data[i].bank_deg]]
            IN  /\ roll_csv' = [i \in 1..Len(roll_output) |->
                                   [time |-> roll_output[i].time,
                                    roll |-> FormatBank(roll_output[i].roll)]]
                /\ log' = log
                          \o (IF roll_file.status = "missing"
                              THEN << "WARNING: N97CX_roll_original.csv not found!" >>
                              ELSE << >>)
                          \o << "Wrote roll" >>
                /\ pc' = "done"
                /\ UNCHANGED raised
    /\ UNCHANGED << roll_file, pt_split, at_split, bank_at_split, original_bank_at_split,
                    actual_descent_fpm, x_ft, y_ft, alt, heading, speed, turn_rate,
                    bank, target_bank, current_time, phase, iteration,
                    rollout_started, at_1000ft_marker, on_centerline, on_heading,
                    sim_data, extended_data, xyz_csv >>
    /\ UNCHANGED call

Next ==
    \/ ReadRollOriginal
    \/ LoopStop
    \/ LoopStep
    \/ LoopExhausted
    \/ Report
    \/ WriteXyz
    \/ GenerateRoll

Spec == Init /\ [][Next]_vars

(***************************************************************************)
(* The utility functions applied on their own: the script does not run     *)
(* (pc = "idle"), call holds the function's arguments and then its result. *)
(***************************************************************************)
ScriptIdle ==
    /\ pc = "idle"
    /\ roll_file = [status |-> "missing", rows |-> << >>]
    /\ pt_split = [time |-> SPLIT_TIME, alt |-> TARGET_ALTITUDE_FT]
    /\ at_split = [heading_at_split |-> 0, speed_at_split |-> TARGET_SPEED_KTS,
                   turn_rate_at_split |-> 0]
    /\ bank_at_split = 0
    /\ original_bank_at_split = 0
    /\ actual_descent_fpm = 0
    /\ x_ft = 0
    /\ y_ft = 0
    /\ alt = TARGET_ALTITUDE_FT
    /\ heading = 0
    /\ speed = TARGET_SPEED_KTS
    /\ turn_rate = 0
    /\ bank = Unbound
    /\ target_bank = Unbound
    /\ current_time = SPLIT_TIME
    /\ phase = 1
    /\ iteration = 0
    /\ rollout_started = FALSE
    /\ at_1000ft_marker = FALSE
    /\ on_centerline = FALSE
    /\ on_heading = FALSE
    /\ sim_data = << >>
    /\ extended_data = << >>
    /\ xyz_csv = << >>
    /\ roll_csv = << >>
    /\ log = << >>
    /\ raised = FALSE

\* the headings tried: the circle cut into AngleDivisions equal parts
AngleDivisions == 12

AngleHeadings == { (k * 36000) \div AngleDivisions : k \in 0..(AngleDivisions - 1) }

AngleInit ==
    /\ ScriptIdle
    /\ \E h1 \in AngleHeadings, h2 \in AngleHeadings :
           call = [fn |-> "signed_angle_diff", args |-> << h1, h2 >>,
                   result |-> << >>]

ApplySignedAngleDiff ==
    /\ call.fn = "signed_angle_diff"
    /\ call.result = << >>
    /\ call' = [call EXCEPT
                   !.result = << signed_angle_diff(call.args[1], call.args[2]) >>]
    /\ UNCHANGED script_vars

AngleSpec == AngleInit /\ [][ApplySignedAngleDiff]_vars

(***************************************************************************)
(* Properties                                                              *)
(***************************************************************************)
\* the loop was left at the break of line 380
Broke == at_1000ft_marker \/ (on_centerline /\ on_heading)

AfterLoop == pc \in {"report", "write_xyz", "gen_roll", "done", "aborted"}

\* the state at which the loop stopped: the last sample appended, or the
\* initial state
StopState ==
    IF extended_data = << >>
    THEN [x_ft |-> x_ft, y_ft |-> y_ft, heading |-> heading]
    ELSE [x_ft |-> extended_data[Len(extended_data)].x_ft,
          y_ft |-> extended_data[Len(extended_data)].y_ft,
          heading |-> extended_data[Len(extended_data)].heading]

\* C1: once rollout_started is true it is true in every later state: no step
\* of the script takes it from true to false.
C1_RolloutStartedMonotonic == [][rollout_started => rollout_started']_vars

\* C1 witness: the turn was held, rollout began, and the loop went on for
\* many iterations with the flag set
C1_Witness ==
    /\ rollout_started
    /\ pc = "loop"
    /\ \E i \in 1..Len(log) : log[i] = "Maintaining"
    /\ iteration >= 30

\* C2: the loop runs at most max_iterations = 200 iterations and appends at
\* most one sample per iteration, so at most 200 samples, whatever the
\* initial state; at the cap the loop condition fails.
C2_LoopBounded ==
    /\ iteration <= max_iterations
    /\ Len(extended_data) <= iteration
    /\ Len(extended_data) <= max_iterations
    /\ (pc = "loop" /\ iteration = max_iterations => ~LoopGuard)

\* C2 witness: the cap was reached with no stop predicate ever holding
C2_Witness ==
    /\ pc = "report"
    /\ iteration = max_iterations
    /\ Len(extended_data) = max_iterations
    /\ ~Broke
    /\ ~StopCondition(x_ft, y_ft, heading)

\* C3: when the loop ended at the break, the state where it stopped has
\* along-track <= -1000 ft if the past-threshold predicate held, and
\* |cross-track| < 50 ft with |heading error| < 5 degrees if the
\* centerline-capture predicate held.
C3_StopStateSatisfiesPredicate ==
    (AfterLoop /\ Broke) =>
        /\ at_1000ft_marker => AlongTrack(StopState.x_ft, StopState.y_ft) <= -10000
        /\ (on_centerline /\ on_heading) =>
               /\ Abs(CrossTrack(StopState.x_ft, StopState.y_ft)) < 500
               /\ Abs(signed_angle_diff(StopState.heading, RWY_30L_HEADING)) < 500

\* C3 witness: the loop ended on centerline capture after samples were appended
C3_Witness ==
    /\ AfterLoop
    /\ on_centerline /\ on_heading /\ ~at_1000ft_marker
    /\ Len(extended_data) > 10

\* the altitude before sample i: the cutover altitude, or the sample before
AltBefore(i) == IF i = 1 THEN sim_data[1].alt ELSE extended_data[i - 1].alt

\* C4 (as claimed): altitude never increases from one state to the next,
\* starting at the cutover altitude, no sample lies below the floor, and
\* once at the floor altitude stays there.
C4_AltitudeNonIncreasing ==
    \A i \in 1..Len(extended_data) :
        /\ extended_data[i].alt <= AltBefore(i)
        /\ extended_data[i].alt >= TARGET_ALTITUDE_FT
        /\ (AltBefore(i) = TARGET_ALTITUDE_FT =>
                extended_data[i].alt = TARGET_ALTITUDE_FT)

\* C5 (as claimed): no step increases speed, and a step that starts above
\* the target speed does not end below it.
C5_SpeedNeverBelowTarget ==
    [][/\ speed' <= speed
       /\ (speed > TARGET_SPEED_KTS => speed' >= TARGET_SPEED_KTS)]_vars

\* C6 (as claimed): for headings in [0, 360) signed_angle_diff lies in
\* (-180, 180]: never -180.
C6_HalfOpenRange ==
    call.result # << >> =>
        (call.result[1] > -18000 /\ call.result[1] <= 18000)

\* C6 (amended): for headings in [0, 360) signed_angle_diff lies in the closed
\* interval [-180, 180], differs from to - from by a whole number of turns,
\* and is -180 exactly when to - from = -180.
C6_ClosedRange ==
    call.result # << >> =>
        LET d == call.result[1]
            raw == call.args[2] - call.args[1]
        IN  /\ d >= -18000 /\ d <= 18000
            /\ (d - raw) % 36000 = 0
            /\ (d = -18000 <=> raw = -18000)

\* C6 witness: the result is exactly -180
C6_Witness == call.result = << -18000 >>

\* C7: heading is normalized, 0 <= heading < 360, in every state of the
\* script and in every sample.
C7_HeadingNormalized ==
    pc # "idle" =>
        /\ heading >= 0 /\ heading < 36000
        /\ \A i \in 1..Len(extended_data) :
               extended_data[i].heading >= 0 /\ extended_data[i].heading < 36000

\* C7 witness: the heading wrapped through north in both directions, and a
\* step turned by at least 2 degrees
C7_Witness ==
    /\ \E i \in 1..(Len(extended_data) - 1) :
           extended_data[i].heading > 35000 /\ extended_data[i + 1].heading < 1000
    /\ \E j \in 1..(Len(extended_data) - 1) :
           extended_data[j].heading < 1000 /\ extended_data[j + 1].heading > 35000

\* C8: in every sample the turn rate is negative only with negative bank,
\* positive only with positive bank, and 0 whenever |bank| <= 0.5 degrees.
C8_BankTurnRateSameSign ==
    \A i \in 1..Len(extended_data) :
        LET smp == extended_data[i]
        IN  /\ smp.turn_rate < 0 => smp.bank_deg < 0
            /\ smp.turn_rate > 0 => smp.bank_deg > 0
            /\ Abs(smp.bank_deg) <= 50 => smp.turn_rate = 0

\* C8 witness: samples turning left, turning right, and banked by no more
\* than 0.5 degrees but not level
C8_Witness ==
    /\ \E i \in 1..Len(extended_data) :
           extended_data[i].bank_deg < 0 /\ extended_data[i].turn_rate < 0
    /\ \E i \in 1..Len(extended_data) :
           extended_data[i].bank_deg > 0 /\ extended_data[i].turn_rate > 0
    /\ \E i \in 1..Len(extended_data) :
           /\ extended_data[i].bank_deg # 0
           /\ Abs(extended_data[i].bank_deg) <= 50
           /\ extended_data[i].turn_rate = 0

\* what a run that ended on a stop predicate can print
LinesOfStoppedRuns ==
    { "Original bank at split", "Starting", "Maintaining", "Rollout", "End",
      "Simulation complete", "Wrote xyz", "Wrote roll",
      "WARNING: N97CX_roll_original.csv not found!" }

\* C9 (as claimed): when the cap is reached with no stop predicate having
\* held, the run has not aborted, every sample (one per iteration) is in the
\* output written, and the log holds a line that flags the non-convergence:
\* one that no run ended by a stop predicate prints.
C9_NonConvergenceFlagged ==
    (pc = "gen_roll" /\ ~Broke) =>
        /\ ~raised
        /\ Len(extended_data) = iteration
        /\ xyz_csv = sim_data
        /\ Len(xyz_csv) = 1 + Len(extended_data)
        /\ \E i \in 1..Len(log) : log[i] \notin LinesOfStoppedRuns

\* C10 (as claimed): with the roll file missing or unreadable the run does
\* not raise, the original bank at the split is the bank computed from the
\* turn rate, and once the run is over a diagnostic of the fallback is in
\* the log.
C10_RollFallback ==
    roll_file.status \in {"missing", "unreadable"} =>
        /\ ~raised
        /\ (pc # "read_roll" => original_bank_at_split = bank_at_split)
        /\ (pc \in {"done", "aborted"} =>
                \E i \in 1..Len(log) :
                    log[i] = "WARNING: N97CX_roll_original.csv not found!")

(***************************************************************************)
(* interpolate_roll applied on its own to a time-sorted roll list          *)
(***************************************************************************)
\* the longest roll list interpolate_roll is applied to
MaxInterpRows == 3

\* times of day of the rows, in ms, and the roll values recorded
InterpTimes == { SPLIT_TIME - 1000, SPLIT_TIME, SPLIT_TIME + 1000 }

InterpRolls == { -2800, 0, 1500 }

\* the times interpolate_roll is asked for: before, at, between and after
InterpTargets ==
    { SPLIT_TIME - 1500, SPLIT_TIME - 1000, SPLIT_TIME - 600, SPLIT_TIME,
      SPLIT_TIME + 250, SPLIT_TIME + 1000, SPLIT_TIME + 1500 }

\* the roll lists as line 587 leaves them: sorted by secs, equal times allowed
SortedRollLists ==
    UNION { { rows \in [1..n -> [secs : InterpTimes, roll : InterpRolls]] :
                \A i \in 1..(n - 1) : rows[i].secs <= rows[i + 1].secs } :
            n \in 0..MaxInterpRows }

InterpolateInit ==
    /\ ScriptIdle
    /\ \E rows \in SortedRollLists, t \in InterpTargets :
           call = [fn |-> "interpolate_roll", args |-> << rows, t >>,
                   result |-> << >>]

ApplyInterpolateRoll ==
    /\ call.fn = "interpolate_roll"
    /\ call.result = << >>
    /\ call' = [call EXCEPT
                   !.result = << interpolate_roll(call.args[1], call.args[2]) >>]
    /\ UNCHANGED script_vars

InterpolateSpec == InterpolateInit /\ [][ApplyInterpolateRoll]_vars

\* C11: for a non-empty time-sorted roll list interpolate_roll returns the
\* first row's value before the first row, the last row's value after the
\* last row, and between two neighbouring rows a value between theirs.
C11_InterpolateBoundaries ==
    (call.fn = "interpolate_roll" /\ call.result # << >> /\ call.args[1] # << >>) =>
        LET rows == call.args[1]
            t == call.args[2]
            r == call.result[1]
        IN  /\ r # << >>
            /\ t < rows[1].secs => r[1] = rows[1].roll
            /\ t > rows[Len(rows)].secs => r[1] = rows[Len(rows)].roll
            /\ \A i \in 1..(Len(rows) - 1) :
                   (rows[i].secs < t /\ t < rows[i + 1].secs) =>
                       /\ r[1] >= Min(rows[i].roll, rows[i + 1].roll)
                       /\ r[1] <= Max(rows[i].roll, rows[i + 1].roll)

\* C11, the case between two rows: the value returned is strictly between
\* the two rows' values
C11_InterpolatedReached ==
    /\ call.fn = "interpolate_roll"
    /\ call.result # << >>
    /\ Len(call.args[1]) = 3
    /\ call.args[1][2].secs < call.args[2]
    /\ call.args[2] < call.args[1][3].secs
    /\ call.result[1] # << >>
    /\ call.result[1][1] > Min(call.args[1][2].roll, call.args[1][3].roll)
    /\ call.result[1][1] < Max(call.args[1][2].roll, call.args[1][3].roll)

\* C11 witness: the first row's value returned before the first row of a
\* list whose first two rows differ
C11_Witness ==
    /\ call.fn = "interpolate_roll"
    /\ call.result # << >>
    /\ Len(call.args[1]) >= 2
    /\ call.args[2] < call.args[1][1].secs
    /\ call.args[1][1].roll # call.args[1][2].roll
    /\ call.result[1] = << call.args[1][1].roll >>

(***************************************************************************)
(* The 3-point moving average of lines 668-677 applied on its own.         *)
(* Here groundspeeds are binary floating-point numbers, as in the script,  *)
(* so that averaging rounds: a float is a natural number m * 2^e with      *)
(* m < 2^FloatBits, in units of the smallest float, and every operation    *)
(* rounds its exact result to the nearest float, ties to the even m.       *)
(***************************************************************************)
\* bits of the significand (53 for the script's doubles)
FloatBits == 5

\* the spacing of the floats around num / den: the smallest power of two u
\* with num / den < 2^FloatBits * u
RECURSIVE QuantumFrom(_, _, _)
QuantumFrom(num, den, u) ==
    IF num < den * (2 ^ FloatBits) * u THEN u ELSE QuantumFrom(num, den, 2 * u)

Ulp(x) == QuantumFrom(x, 1, 1)

\* num / den rounded to the nearest float, ties to even
FloatRound(num, den) ==
    LET u == QuantumFrom(num, den, 1)
        lo == num \div (den * u)
        rem == num % (den * u)
    IN  IF 2 * rem > den * u \/ (2 * rem = den * u /\ lo % 2 = 1)
        THEN (lo + 1) * u
        ELSE lo * u

FloatAdd(a, b) == FloatRound(a + b, 1)

FloatDiv(a, k) == FloatRound(a, k)

\* a moving average that counts a missing neighbour as 0
SmoothedZeroPadded(gs_raw, i) ==
    LET before == IF i = 1 THEN 0 ELSE gs_raw[i - 1].gs
        after == IF i = Len(gs_raw) THEN 0 ELSE gs_raw[i + 1].gs
    IN  FloatDiv(FloatAdd(FloatAdd(before, gs_raw[i].gs), after), 3)

\* lines 671-676: the smoothed value of the i-th raw sample (i from 1)
Smoothed(gs_raw, i) ==
    IF i = 1
    THEN IF Len(gs_raw) > 1 THEN FloatDiv(FloatAdd(gs_raw[1].gs, gs_raw[2].gs), 2)
         ELSE gs_raw[i].gs
    ELSE IF i = Len(gs_raw)
         THEN FloatDiv(FloatAdd(gs_raw[i - 1].gs, gs_raw[i].gs), 2)
         ELSE FloatDiv(FloatAdd(FloatAdd(gs_raw[i - 1].gs, gs_raw[i].gs),
                                gs_raw[i + 1].gs), 3)

\* lines 669-677
gs_output(gs_raw) ==
    [i \in 1..Len(gs_raw) |-> [time |-> gs_raw[i].time, gs |-> Smoothed(gs_raw, i)]]

\* the longest raw series smoothed, and the largest raw groundspeed
MaxSeriesLen == 4

MaxRawGs == 64

\* the raw groundspeeds: the floats from 1 to MaxRawGs
RawGsValues == { v \in 1..MaxRawGs : FloatRound(v, 1) = v }

\* raw series: constant ones, and ones that mix a value with one half above it
RawSeries ==
    UNION { { [i \in 1..n |-> [time |-> SPLIT_TIME + i * dt, gs |-> pick[i]]] :
                pick \in [1..n -> {a, FloatRound(3 * a, 2)}] } :
            n \in 0..MaxSeriesLen, a \in RawGsValues }

SmoothInit ==
    /\ ScriptIdle
    /\ \E series \in RawSeries :
           call = [fn |-> "gs_output", args |-> << series >>, result |-> << >>]

ApplySmoothing ==
    /\ call.fn = "gs_output"
    /\ call.result = << >>
    /\ call' = [call EXCEPT !.result = << gs_output(call.args[1]) >>]
    /\ UNCHANGED script_vars

SmoothSpec == SmoothInit /\ [][ApplySmoothing]_vars

\* the raw series of a call is constant and not empty
ConstantSeries(series) ==
    /\ series # << >>
    /\ \A i \in 1..Len(series) : series[i].gs = series[1].gs

\* C12 (as claimed): for a constant raw series of length >= 1 the smoothed
\* series has the same length and every smoothed value equals the input value.
C12_ConstantUnchanged ==
    (call.fn = "gs_output" /\ call.result # << >> /\ ConstantSeries(call.args[1])) =>
        /\ Len(call.result[1]) = Len(call.args[1])
        /\ \A i \in 1..Len(call.args[1]) :
               call.result[1][i].gs = call.args[1][i].gs

\* C12 (amended): for a constant raw series of length >= 1 the smoothed series
\* has the same length and the same timestamps, its first and last values
\* (2-point averages, or the value itself at length 1) equal the input value,
\* and every other value (a 3-point average) is within one unit in the last
\* place of the input value.
C12_ConstantWithinUlp ==
    (call.fn = "gs_output" /\ call.result # << >> /\ ConstantSeries(call.args[1])) =>
        LET raw == call.args[1]
            out == call.result[1]
        IN  /\ Len(out) = Len(raw)
            /\ \A i \in 1..Len(raw) :
                   /\ out[i].time = raw[i].time
                   /\ (i = 1 \/ i = Len(raw)) => out[i].gs = raw[i].gs
                   /\ out[i].gs - raw[i].gs <= Ulp(raw[i].gs)
                   /\ raw[i].gs - out[i].gs <= Ulp(raw[i].gs)

\* C12 witness: a constant series whose smoothed series differs from it, at
\* a 3-point average
C12_Witness ==
    /\ call.fn = "gs_output"
    /\ call.result # << >>
    /\ ConstantSeries(call.args[1])
    /\ Len(call.args[1]) >= 3
    /\ call.result[1][1].gs = call.args[1][1].gs
    /\ call.result[1][2].gs # call.args[1][2].gs

(***************************************************************************)
(* The groundspeed derivation of lines 640-666 applied on its own to a     *)
(* list of track points (time in ms, position in decifeet).                *)
(***************************************************************************)
\* lines 659-663: groundspeed in centiknots over a time delta in ms
GsKts(prev_pt, pt, delta) ==
    LET dist_ft == haversine_distance_ft(prev_pt.x_ft, prev_pt.y_ft, pt.x_ft, pt.y_ft)
        gs_fps == RDiv(dist_ft * 10000, delta)
    IN  RDiv(gs_fps * 10000, KNOTS_TO_FPS)

\* a derivation that gives a point with no positive time delta the speed 0
GsSampleZeroSpeed(prev_pt, pt) ==
    LET delta == pt.time - prev_pt.time
    IN  IF delta <= 0 THEN << [time |-> pt.time, gs |-> 0] >>
        ELSE << [time |-> pt.time, gs |-> GsKts(prev_pt, pt, delta)] >>

\* lines 653-665: what a point after the first appends to gs_raw
GsSample(prev_pt, pt) ==
    LET delta == pt.time - prev_pt.time
    IN  IF delta <= 0 THEN << >>
        ELSE << [time |-> pt.time, gs |-> GsKts(prev_pt, pt, delta)] >>

\* lines 648-666 from point i on; prev_pt is << >> for None
RECURSIVE GsRawFrom(_, _, _)
GsRawFrom(points, i, prev_pt) ==
    IF i > Len(points) THEN << >>
    ELSE IF prev_pt = << >> THEN GsRawFrom(points, i + 1, << points[i] >>)
    ELSE GsSample(prev_pt[1], points[i]) \o GsRawFrom(points, i + 1, << points[i] >>)

gs_raw(points) == GsRawFrom(points, 1, << >>)

\* the longest track the derivation is applied to
MaxTrackLen == 4

\* track points: times that repeat and go back, positions 0 or 84.5 ft along x
TrackPoints ==
    [time : { SPLIT_TIME - dt, SPLIT_TIME, SPLIT_TIME + dt }, x_ft : { 0, 845 },
     y_ft : { 0 }]

Tracks == UNION { [1..n -> TrackPoints] : n \in 0..MaxTrackLen }

GsInit ==
    /\ ScriptIdle
    /\ \E points \in Tracks :
           call = [fn |-> "gs_raw", args |-> << points >>, result |-> << >>]

ApplyGsRaw ==
    /\ call.fn = "gs_raw"
    /\ call.result = << >>
    /\ call' = [call EXCEPT !.result = << gs_raw(call.args[1]) >>]
    /\ UNCHANGED script_vars

GsSpec == GsInit /\ [][ApplyGsRaw]_vars

\* the points of a track that come a positive time after the point before
PositiveDeltaPoints(points) ==
    { i \in 2..Len(points) : points[i].time - points[i - 1].time > 0 }

\* C13: the derived-speed samples are, in order, those of the points that
\* come a strictly positive time after the point before them: a point with a
\* zero or negative time delta gives no sample, and every sample is the
\* distance from the point before divided by a positive time delta.
C13_DegenerateDeltaSkipped ==
    (call.fn = "gs_raw" /\ call.result # << >>) =>
        LET points == call.args[1]
            out == call.result[1]
            kept == PositiveDeltaPoints(points)
        IN  /\ Len(out) = Cardinality(kept)
            /\ \E f \in [1..Len(out) -> kept] :
                   /\ \A j \in 1..(Len(out) - 1) : f[j] < f[j + 1]
                   /\ \A j \in 1..Len(out) :
                          /\ out[j].time = points[f[j]].time
                          /\ out[j].gs >= 0
                          /\ out[j].gs =
                                 GsKts(points[f[j] - 1], points[f[j]],
                                       points[f[j]].time - points[f[j] - 1].time)

\* C13 witness: a track with a repeated time, a time going back and a time
\* going forward, which gives one sample, of positive speed
C13_Witness ==
    /\ call.fn = "gs_raw"
    /\ call.result # << >>
    /\ Len(call.args[1]) = 4
    /\ \E i \in 2..4 : call.args[1][i].time = call.args[1][i - 1].time
    /\ \E i \in 2..4 : call.args[1][i].time < call.args[1][i - 1].time
    /\ Len(call.result[1]) = 1
    /\ call.result[1][1].gs > 0

(***************************************************************************)
(* Properties of the simulation loop                                       *)
(***************************************************************************)
\* the run started from the cutover state of the end-to-end scenario:
\* 1797.7 ft east and 827.2 ft south of the threshold (lat 36.2028,
\* lon -115.1844), 2270 ft, heading 250, 113 kts, turning left at 5 deg/s
NominalRun ==
    /\ sim_data # << >>
    /\ sim_data[1] = [time |-> SPLIT_TIME, x_ft |-> 17977, y_ft |-> -8272,
                      alt |-> 227000]
    /\ at_split = [heading_at_split |-> 25000, speed_at_split |-> 11300,
                   turn_rate_at_split |-> -500]

\* C14: from the cutover state of the end-to-end scenario the timestamps are
\* strictly increasing, the loop ends before iteration 200, and it ends on a
\* stop predicate: within 50 ft of the centerline and 5 degrees of the runway
\* heading, or at least 1000 ft past the threshold.
C14_EndToEnd ==
    NominalRun =>
        /\ \A i \in 1..(Len(sim_data) - 1) : sim_data[i].time < sim_data[i + 1].time
        /\ \A i \in 1..(Len(extended_data) - 1) :
               extended_data[i].time < extended_data[i + 1].time
        /\ iteration < max_iterations
        /\ AfterLoop =>
               /\ Broke
               /\ \/ /\ Abs(CrossTrack(StopState.x_ft, StopState.y_ft)) < 500
                     /\ Abs(signed_angle_diff(StopState.heading, RWY_30L_HEADING)) < 500
                  \/ AlongTrack(StopState.x_ft, StopState.y_ft) <= -10000

\* C14 witness: the scenario's run has ended, on a stop predicate, after
\* samples were produced
C14_Witness ==
    /\ NominalRun
    /\ pc = "done"
    /\ Broke
    /\ Len(extended_data) >= 50
    /\ iteration < max_iterations

\* a stop predicate holds for a position and heading: 1000 ft past the
\* threshold, or within 50 ft of the centerline and 5 degrees of its heading
StopPredicateHolds(x, y, hdg) ==
    \/ AlongTrack(x, y) < -10000
    \/ /\ Abs(CrossTrack(x, y)) < 500
       /\ Abs(signed_angle_diff(hdg, RWY_30L_HEADING)) < 500

\* C15: an iteration that starts in a state where a stop predicate holds
\* changes no kinematic state, appends no sample and leaves the loop; hence
\* neither the state the loop started from (once a sample exists) nor any
\* sample but the last satisfies a stop predicate.
C15_StopBeforeUpdate ==
    /\ [](/\ extended_data # << >> =>
                ~StopPredicateHolds(sim_data[1].x_ft, sim_data[1].y_ft,
                                    at_split.heading_at_split)
          /\ \A i \in 1..(Len(extended_data) - 1) :
                ~StopPredicateHolds(extended_data[i].x_ft, extended_data[i].y_ft,
                                    extended_data[i].heading))
    /\ [][(pc = "loop" /\ StopPredicateHolds(x_ft, y_ft, heading)) =>
              /\ pc' = "report"
              /\ UNCHANGED << x_ft, y_ft, alt, heading, speed, turn_rate, bank,
                              target_bank, current_time, rollout_started,
                              sim_data, extended_data >>]_vars

\* C15 witness: the loop was left at the break after samples were appended;
\* the breaking iteration appended none and the state is the last sample's
C15_Witness ==
    /\ pc = "report"
    /\ Broke
    /\ Len(extended_data) >= 20
    /\ Len(extended_data) = iteration - 1
    /\ StopPredicateHolds(x_ft, y_ft, heading)
    /\ x_ft = extended_data[Len(extended_data)].x_ft
    /\ heading = extended_data[Len(extended_data)].heading

\* a step of the loop that runs its whole body: the loop is not left
BodyStep == pc = "loop" /\ pc' = "loop" /\ iteration' = iteration + 1

\* distance to the runway threshold at the start of a step, in decifeet
DistToRunway == haversine_distance_ft(x_ft, y_ft, 0, 0)

\* distance / (speed in ft/s), in centiseconds
TimeToThreshold == RDiv(DistToRunway * 1000, RDiv(speed * KNOTS_TO_FPS, 10000))

\* (speed - target) / time to threshold clamped to [0.3, 2.0] kts/s, in
\* centiknots per second
ClampedDecelRate ==
    Max(30, Min(200, RDiv((speed - TARGET_SPEED_KTS) * 100, TimeToThreshold)))

\* C16 (as claimed): in every step with speed > target speed and distance to
\* the runway > 100 ft, speed drops by the clamped rate x dt: by at least
\* 0.15 kts and at most 1.0 kts.
C16_DecelerationActive ==
    [][(BodyStep /\ speed > TARGET_SPEED_KTS /\ DistToRunway > 1000) =>
           /\ speed - speed' = RDiv(ClampedDecelRate * dt, 1000)
           /\ speed - speed' >= 15
           /\ speed - speed' <= 100]_vars

\* C16 (amended): in every step with speed > target speed, distance to the
\* runway > 100 ft and time to threshold > 1 s, speed drops by the clamped
\* rate x dt, by at least 0.15 kts and at most 1.0 kts; in a step with speed
\* > target speed and distance > 100 ft but time to threshold <= 1 s, speed
\* is unchanged.
C16_DecelerationActiveOverOneSecond ==
    [][(BodyStep /\ speed > TARGET_SPEED_KTS /\ DistToRunway > 1000) =>
           IF TimeToThreshold > 100
           THEN /\ speed - speed' = RDiv(ClampedDecelRate * dt, 1000)
                /\ speed - speed' >= 15
                /\ speed - speed' <= 100
           ELSE speed' = speed]_vars

\* C16 witness: samples exist after steps that decelerated at the floor rate,
\* at the ceiling rate and in between, and after a step that started above
\* the target speed more than 100 ft out and did not decelerate
C16_Witness ==
    /\ Len(extended_data) >= 2
    /\ \E i \in 1..(Len(extended_data) - 1) :
           extended_data[i].gs_kts - extended_data[i + 1].gs_kts = 15
    /\ \E i \in 1..(Len(extended_data) - 1) :
           /\ extended_data[i].gs_kts > TARGET_SPEED_KTS
           /\ haversine_distance_ft(extended_data[i].x_ft, extended_data[i].y_ft,
                                    0, 0) > 1000
           /\ extended_data[i + 1].gs_kts = extended_data[i].gs_kts

\* C17: a step that starts with speed <= target speed or within 100 ft of
\* the runway leaves speed as it is, and still advances time by dt, heading
\* by the new turn rate x dt, altitude by the descent rate x dt down to the
\* floor, and position along the new heading by speed x dt.
C17_SpeedFrozen ==
    [][(BodyStep /\ (speed <= TARGET_SPEED_KTS \/ DistToRunway <= 1000)) =>
           /\ speed' = speed
           /\ current_time' = current_time + dt
           /\ heading' = normalize_heading(heading + RDiv(turn_rate' * dt, 1000))
           /\ alt' = Max(TARGET_ALTITUDE_FT, alt + RDiv(actual_descent_fpm * dt, 6000))
           /\ << x_ft', y_ft' >> =
                  destination_point(x_ft, y_ft, heading',
                                    RDiv(RDiv(speed * KNOTS_TO_FPS, 10000) * dt, 10000))
           /\ << x_ft', y_ft' >> # << x_ft, y_ft >>]_vars

\* C17 witness: a sample above the target speed within 100 ft of the runway,
\* and a sample below the target speed, each followed by a sample of the
\* same speed at another position and a later time
C17_Witness ==
    /\ \E i \in 1..(Len(extended_data) - 1) :
           /\ extended_data[i].gs_kts > TARGET_SPEED_KTS
           /\ haversine_distance_ft(extended_data[i].x_ft, extended_data[i].y_ft,
                                    0, 0) <= 1000
           /\ extended_data[i + 1].gs_kts = extended_data[i].gs_kts
           /\ extended_data[i + 1].x_ft # extended_data[i].x_ft
           /\ extended_data[i + 1].time > extended_data[i].time
    /\ \E j \in 1..(Len(extended_data) - 1) :
           /\ extended_data[j].gs_kts < TARGET_SPEED_KTS
           /\ extended_data[j + 1].gs_kts = extended_data[j].gs_kts
           /\ extended_data[j + 1].x_ft # extended_data[j].x_ft
           /\ extended_data[j + 1].heading # extended_data[j].heading

\* rate x dt of a step, in centidegrees: 3 deg/s while rollout has not
\* started, else 8 deg/s with the heading error to the runway above +20
\* degrees at the start of the step, else 5 deg/s
BankRateTimesDt ==
    IF ~rollout_started' THEN 150
    ELSE IF signed_angle_diff(heading, RWY_30L_HEADING) > 2000 THEN 400
    ELSE 250

\* C18: in every step after the first, bank moves toward the step's target
\* bank by at most rate x dt and not past it, and lands on the target
\* exactly when the target is within rate x dt.
C18_BankRateLimited ==
    [][(BodyStep /\ iteration >= 1) =>
           /\ Abs(bank' - bank) <= BankRateTimesDt
           /\ Min(bank, target_bank') <= bank'
           /\ bank' <= Max(bank, target_bank')
           /\ Abs(target_bank' - bank) <= BankRateTimesDt => bank' = target_bank'
           /\ Abs(target_bank' - bank) > BankRateTimesDt => bank' # target_bank']_vars

\* C18 witness: samples whose bank follows the one before by exactly
\* 4 degrees, by exactly 2.5 degrees, by less (landing on the target), and
\* not at all
C18_Witness ==
    /\ \E i \in 1..(Len(extended_data) - 1) :
           Abs(extended_data[i + 1].bank_deg - extended_data[i].bank_deg) = 400
    /\ \E i \in 1..(Len(extended_data) - 1) :
           Abs(extended_data[i + 1].bank_deg - extended_data[i].bank_deg) = 250
    /\ \E i \in 1..(Len(extended_data) - 1) :
           /\ extended_data[i + 1].bank_deg # extended_data[i].bank_deg
           /\ Abs(extended_data[i + 1].bank_deg - extended_data[i].bank_deg) < 150
    /\ \E i \in 1..(Len(extended_data) - 1) :
           extended_data[i + 1].bank_deg = extended_data[i].bank_deg
    /\ bank = target_bank

\* the pre-rollout condition at the start of a step: rollout not started,
\* more than 200 ft right of the centerline, heading not below the intercept
\* heading (runway heading - 5 degrees)
PreRolloutCondition ==
    /\ ~rollout_started
    /\ CrossTrack(x_ft, y_ft) > 2000
    /\ ~(heading < RWY_30L_HEADING - 500)

\* C19 (as claimed): in every step the flag is set exactly when the
\* pre-rollout condition fails, so it flips at the first step where the
\* condition fails; while the condition holds the flag stays false and the
\* target bank is the original bank at cutover.
C19_RolloutAtFirstFailure ==
    [][BodyStep =>
           /\ rollout_started' = (rollout_started \/ ~PreRolloutCondition)
           /\ PreRolloutCondition =>
                  (~rollout_started' /\ target_bank' = original_bank_at_split)]_vars

\* C19 (amended): the first step does not evaluate the pre-rollout condition:
\* it leaves the flag false and assigns no target bank.  In every later step
\* the flag is set exactly when the condition fails, so it flips at the
\* first step after the first where the condition fails; while the condition
\* holds the flag stays false and the target bank is the original bank.
C19_RolloutAtFirstFailureAfterFirstStep ==
    [][BodyStep =>
           IF iteration = 0
           THEN /\ ~rollout_started /\ ~rollout_started'
                /\ target_bank = Unbound /\ target_bank' = Unbound
           ELSE /\ rollout_started' = (rollout_started \/ ~PreRolloutCondition)
                /\ PreRolloutCondition =>
                       (~rollout_started' /\ target_bank' = original_bank_at_split)]_vars

\* C19 witness: the run started with the heading below the intercept heading,
\* the first step left the flag false, the second step set it
C19_Witness ==
    /\ at_split.heading_at_split < RWY_30L_HEADING - 500
    /\ iteration = 2
    /\ Len(extended_data) = 2
    /\ rollout_started
    /\ log[Len(log)] = "Rollout"
    /\ log[Len(log) - 1] = "Starting"

\* C19, the turn held first: the flag set at a later step, after steps that
\* held the original bank as the target
C19_HeldThenRollout ==
    /\ rollout_started
    /\ iteration >= 4
    /\ log # << >>
    /\ log[Len(log)] = "Rollout"
    /\ \E i \in 1..Len(log) : log[i] = "Maintaining"

\* C20: the sample of the first step, and the sample of every later step
\* that leaves rollout not started, has the original bank at cutover as its
\* bank angle.
C20_BankHeldBeforeRollout ==
    [][BodyStep =>
           /\ Len(extended_data') = Len(extended_data) + 1
           /\ extended_data'[Len(extended_data')].bank_deg = bank'
           /\ (iteration = 0 \/ ~rollout_started') =>
                  bank' = original_bank_at_split]_vars

\* C20 witness: the original bank was read from the recorded roll and is not
\* the bank computed from the turn rate; rollout has not started after
\* several steps and every sample has the original bank
C20_Witness ==
    /\ original_bank_at_split # bank_at_split
    /\ ~rollout_started
    /\ Len(extended_data) >= 5
    /\ \A i \in 1..Len(extended_data) :
           extended_data[i].bank_deg = original_bank_at_split

(***************************************************************************)
(* The rollout target bank of lines 432-466 applied on its own to a        *)
(* cross-track (decifeet) and a heading error to the runway (centidegrees) *)
(***************************************************************************)
\* cross-tracks on both sides of the centerline, at and next to 100 ft and
\* 300 ft, and beyond the 600 ft where the cross-track part is capped
BlendCrossTracks ==
    { -7000, -5000, -3001, -3000, -2999, -1000, -999, -400, 0,
      400, 999, 1000, 1001, 2999, 3000, 3001, 5000, 7000 }

\* heading errors in (-180, 180], at and next to +20 degrees
BlendHeadingErrors ==
    { -17000, -3000, -1000, 0, 700, 1500, 2000, 2001, 2500, 5000, 18000 }

TargetBankInit ==
    /\ ScriptIdle
    /\ \E ct \in BlendCrossTracks, err \in BlendHeadingErrors :
           call = [fn |-> "target_bank", args |-> << ct, err >>, result |-> << >>]

ApplyRolloutTargetBank ==
    /\ call.fn = "target_bank"
    /\ call.result = << >>
    /\ call' = [call EXCEPT
                   !.result = << RolloutTargetBank(call.args[1], call.args[2]) >>]
    /\ UNCHANGED script_vars

TargetBankSpec == TargetBankInit /\ [][ApplyRolloutTargetBank]_vars

\* clamp(v, lo, hi)
Clamp(v, lo, hi) == Max(lo, Min(hi, v))

\* the blend for a weight and a gain in tenths; angles in centidegrees
BlendWith(cross_track, err, weight, gain) ==
    LET interceptBank == Clamp(RDiv(-cross_track * 100, 500), -1200, 1200)
        headingCorrection == Clamp(RDiv(err * gain, 10), -1800, 1800)
    IN  Clamp(RDiv(interceptBank * (10 - weight) + headingCorrection * weight, 10),
              -2000, 2000)

\* (weight, gain) in tenths with the middle tier from 100 ft to 300 ft
\* inclusive
TiersInclusive(ct) ==
    IF Abs(ct) < 1000 THEN << 9, 10 >>
    ELSE IF Abs(ct) <= 3000 THEN << 7, 8 >> ELSE << 4, 6 >>

\* (weight, gain) in tenths with the middle tier from 100 ft up to but not
\* including 300 ft
TiersHalfOpen(ct) ==
    IF Abs(ct) < 1000 THEN << 9, 10 >>
    ELSE IF Abs(ct) < 3000 THEN << 7, 8 >> ELSE << 4, 6 >>

\* C21 (as claimed): with the heading error at most +20 degrees the target
\* bank is the blend with (weight, gain) = (0.9, 1.0) for |cross-track| < 100
\* ft, (0.7, 0.8) from 100 ft to 300 ft inclusive, (0.4, 0.6) above 300 ft;
\* right of the centerline it is no more than the heading part alone gives,
\* left of it no less, and |target bank| <= 20 degrees.
C21_BlendTiersInclusive ==
    (call.fn = "target_bank" /\ call.result # << >> /\ call.args[2] <= 2000) =>
        LET ct == call.args[1]
            err == call.args[2]
            t == TiersInclusive(ct)
        IN  /\ call.result[1] = BlendWith(ct, err, t[1], t[2])
            /\ ct > 0 => call.result[1] <= BlendWith(0, err, t[1], t[2])
            /\ ct < 0 => call.result[1] >= BlendWith(0, err, t[1], t[2])
            /\ Abs(call.result[1]) <= 2000

\* C21 (amended): the same with (0.7, 0.8) for |cross-track| from 100 ft up
\* to but not including 300 ft, and (0.4, 0.6) from 300 ft on.
C21_BlendTiers ==
    (call.fn = "target_bank" /\ call.result # << >> /\ call.args[2] <= 2000) =>
        LET ct == call.args[1]
            err == call.args[2]
            t == TiersHalfOpen(ct)
        IN  /\ call.result[1] = BlendWith(ct, err, t[1], t[2])
            /\ ct > 0 => call.result[1] <= BlendWith(0, err, t[1], t[2])
            /\ ct < 0 => call.result[1] >= BlendWith(0, err, t[1], t[2])
            /\ Abs(call.result[1]) <= 2000

\* C21 witness: exactly 300 ft right of the centerline with a heading error
\* that the two tiers blend differently: the target bank is the one of
\* (0.4, 0.6)
C21_Witness ==
    /\ call.fn = "target_bank"
    /\ call.result # << >>
    /\ call.args[1] = 3000
    /\ call.args[2] <= 2000
    /\ call.result[1] = BlendWith(3000, call.args[2], 4, 6)
    /\ call.result[1] # BlendWith(3000, call.args[2], 7, 8)

(***************************************************************************)
(* The rollout controller inside the loop                                  *)
(***************************************************************************)
\* the signed heading error to the runway at the start of a step
HdgToRunway == signed_angle_diff(heading, RWY_30L_HEADING)

\* a step after the first that runs the rollout branch (lines 426-466)
RolloutStep == BodyStep /\ iteration >= 1 /\ rollout_started'

\* C22: in every rollout step whose signed heading error to the runway is
\* above +20 degrees the target bank is min(8, 0.4 x heading error), which is
\* +8 degrees exactly, whatever the blend of cross-track and heading
\* correction would give.
C22_PriorityBranch ==
    [][(RolloutStep /\ HdgToRunway > 2000) =>
           /\ target_bank' = Min(800, RDiv(HdgToRunway * 4, 10))
           /\ target_bank' = 800]_vars

\* C22 witness: the last step was a rollout step that began with a heading
\* error above +20 degrees at a place where the blend gives another bank,
\* and the target bank is +8 degrees
C22_Witness ==
    /\ pc = "loop"
    /\ rollout_started
    /\ iteration = Len(extended_data)
    /\ iteration >= 2
    /\ LET before == extended_data[iteration - 1]
           err == signed_angle_diff(before.heading, RWY_30L_HEADING)
       IN  /\ err > 2000
           /\ InterceptBlend(CrossTrack(before.x_ft, before.y_ft), err) # 800
    /\ target_bank = 800

(***************************************************************************)
(* The samples of the loop (lines 520-545)                                 *)
(***************************************************************************)
\* the last element of a non-empty sequence
Last(seq) == seq[Len(seq)]

\* the iterations so far that passed the stop check of lines 362-380
PassedStopCheck == IF Broke THEN iteration - 1 ELSE iteration

\* C23: every iteration that does not stop advances the clock by exactly dt
\* and then appends exactly one sample, stamped with the new clock, to
\* sim_data and to extended_data, and nothing else changes the clock or the
\* two sequences; so the k-th simulated sample has time SPLIT_TIME + k x dt,
\* the timestamps are strictly increasing, and the number of simulated
\* samples is the number of iterations that passed the stop check.
C23_OneSamplePerIteration ==
    /\ [][IF BodyStep
          THEN /\ current_time' = current_time + dt
               /\ Len(sim_data') = Len(sim_data) + 1
               /\ Len(extended_data') = Len(extended_data) + 1
               /\ SubSeq(sim_data', 1, Len(sim_data)) = sim_data
               /\ SubSeq(extended_data', 1, Len(extended_data)) = extended_data
               /\ Last(sim_data').time = current_time'
               /\ Last(extended_data').time = current_time'
          ELSE UNCHANGED << current_time, sim_data, extended_data >>]_vars
    /\ [](/\ \A k \in 1..Len(extended_data) :
                 /\ extended_data[k].time = SPLIT_TIME + k * dt
                 /\ sim_data[Len(sim_data) - Len(extended_data) + k].time
                        = extended_data[k].time
          /\ \A k \in 1..(Len(sim_data) - 1) :
                 sim_data[k].time < sim_data[k + 1].time
          /\ Len(extended_data) = PassedStopCheck
          /\ Len(sim_data) = 1 + PassedStopCheck)

\* C23 witness: a loop that broke after many samples: one iteration more than
\* samples, the last sample stamped with the clock, which is not the time of
\* the recorded split row plus the steps
C23_Witness ==
    /\ pc = "report"
    /\ Broke
    /\ iteration >= 20
    /\ Len(extended_data) = iteration - 1
    /\ Last(extended_data).time = current_time
    /\ current_time = SPLIT_TIME + (iteration - 1) * dt
    /\ current_time # pt_split.time + (iteration - 1) * dt

(***************************************************************************)
(* The bank angle of the samples (lines 402-483)                           *)
(***************************************************************************)
\* C24: the bank of every sample is within max(|original bank at cutover|,
\* 20 degrees); every step that runs the rate-limited update leaves |bank| at
\* most max(|bank| before the step, |target bank|); and a rollout step that
\* begins with |bank| <= 20 degrees ends with |bank| <= 20 degrees.
C24_BankBounded ==
    /\ [](\A i \in 1..Len(extended_data) :
              Abs(extended_data[i].bank_deg)
                  <= Max(Abs(original_bank_at_split), 2000))
    /\ [][(BodyStep /\ iteration >= 1) =>
              Abs(bank') <= Max(Abs(bank), Abs(target_bank'))]_vars
    /\ [][(RolloutStep /\ Abs(bank) <= 2000) => Abs(bank') <= 2000]_vars

\* C24 witness: the original bank is steeper than 20 degrees and is the bank
\* of the first sample; rollout brought the bank within 20 degrees, where it
\* stayed for several samples, moving on
C24_Witness ==
    /\ Abs(original_bank_at_split) > 2000
    /\ rollout_started
    /\ Len(extended_data) >= 8
    /\ extended_data[1].bank_deg = original_bank_at_split
    /\ \E i \in 2..(Len(extended_data) - 4) :
           /\ Abs(extended_data[i - 1].bank_deg) > 2000
           /\ \A j \in i..Len(extended_data) :
                  Abs(extended_data[j].bank_deg) <= 2000
           /\ extended_data[i].bank_deg # Last(extended_data).bank_deg

\* C24, a shallow original bank: the bank of some sample is steeper than the
\* original bank, within 20 degrees
C24_SteeperThanOriginal ==
    /\ Abs(original_bank_at_split) < 2000
    /\ \E i \in 1..Len(extended_data) :
           Abs(extended_data[i].bank_deg) > Abs(original_bank_at_split)

============================================================================
